---------------------------- MODULE Spec2Model ----------------------------
(***************************************************************************)
(* Model of bolted_lap_joint.py: the exhaustive search design_lap_joint    *)
(* over BOLT_DIAMETERS x BOLT_GRADES and the three capacity helpers.       *)
(*                                                                         *)
(* Number representation.  A Python int is an integer.  A Python float is  *)
(* its IEEE 754 binary64 value, held as                                    *)
(*     [neg |-> sign, m |-> <<m1, m2, m3, m4>>, e |-> e]                   *)
(* and standing for M * 2^e, negated if neg, where the mantissa            *)
(*     M = m1 + m2 * 2^14 + m3 * 2^28 + m4 * 2^42,  2^52 <= M < 2^53,      *)
(* is kept in four limbs of 14 bits, least significant first.  Every float operation of the code (product,       *)
(* quotient, difference, promotion of an int, math.ceil, int, comparison)  *)
(* is carried out on that value with the rounding of the hardware: to      *)
(* nearest, ties to even: with the subnormal numbers (mantissa below 2^52  *)
(* at e = -1074), 0.0 and -0.0 (all limbs 0, e = 0), the infinities        *)
(* [neg |-> sign, inf |-> TRUE] past the largest float, and NaN,           *)
(* [nan |-> TRUE].  An exception is the record of its type and message; an *)
(* operation that may raise gives [raised |-> exception] or                *)
(* [returned |-> value].  Ints are those of TLC, below 2^31 in magnitude:  *)
(* an int beyond that stops the evaluation.                                *)
(*                                                                         *)
(* The load P (numeric, kN) is held as a float, 10.0 for the int 10 of the *)
(* tests: the code promotes P_N = P * 1000 to a float where it first uses  *)
(* it, in the quotient of the bolt count, and float(P * 1000) is the float *)
(* float(P) * 1000.0, the product being exact.                             *)
(***************************************************************************)
EXTENDS Integers, Sequences, FiniteSets

-----------------------------------------------------------------------------
(* Bounds of the model                                                     *)

\* loads 0 .. MaxLoad kN are drawn in addition to the loads of the test file
MaxLoad == 10
\* besides the test's plate_width, the width ExtraWidth mm above it is drawn
ExtraWidth == 1
\* of the thicknesses of the test file, those up to MaxThickness mm are drawn
MaxThickness == 8

-----------------------------------------------------------------------------
(* Natural numbers of several limbs, least significant limb first          *)

LimbBits == 14
MantissaBits == 53
Base == 2^LimbBits

Pow2(k) == 2^k

LimbAt(N, i) == IF i >= 1 /\ i <= Len(N) THEN N[i] ELSE 0

\* the limbs of an integer 0 <= n < 2^31
Limbs(n) == <<n % Base, (n \div Base) % Base, n \div (Base * Base)>>

\* the integer of the limbs q, which has to be below 2^31
ToInt(q) == q[1] + Base * (q[2] + Base * (q[3] + Base * q[4]))

\* number of bits of an integer n >= 0
RECURSIVE BitLen(_)
BitLen(n) ==
    IF n >= 256 THEN 8 + BitLen(n \div 256)
    ELSE IF n >= 16 THEN 4 + BitLen(n \div 16)
    ELSE IF n >= 4 THEN 2 + BitLen(n \div 4)
    ELSE IF n >= 2 THEN 2
    ELSE n

RECURSIVE BBitLenFrom(_, _)
BBitLenFrom(N, i) ==
    IF i = 0 THEN 0
    ELSE IF N[i] # 0 THEN (i - 1) * LimbBits + BitLen(N[i])
    ELSE BBitLenFrom(N, i - 1)

\* number of bits of N
BBitLen(N) == BBitLenFrom(N, Len(N))

\* limb i of N * 2^(k * LimbBits) * pw, pw a power of two below Base
ShlLimb(N, k, pw, i) ==
    ((LimbAt(N, i - k) * pw) % Base) + ((LimbAt(N, i - k - 1) * pw) \div Base)

RECURSIVE BShlWideFrom(_, _, _, _, _)
BShlWideFrom(N, k, pw, i, n) ==
    IF i > n THEN <<>>
    ELSE <<ShlLimb(N, k, pw, i)>> \o BShlWideFrom(N, k, pw, i + 1, n)

\* the n low limbs of N * 2^t
BShlWide(N, t, n) ==
    BShlWideFrom(N, t \div LimbBits, Pow2(t % LimbBits), 1, n)

\* the four low limbs of N * 2^t
BShl(N, t) ==
    LET k == t \div LimbBits
        pw == Pow2(t % LimbBits)
    IN  <<ShlLimb(N, k, pw, 1), ShlLimb(N, k, pw, 2),
          ShlLimb(N, k, pw, 3), ShlLimb(N, k, pw, 4)>>

\* limb i of N \div (2^(k * LimbBits) * pw)
ShrLimb(N, k, pw, i) ==
    (LimbAt(N, i + k) \div pw) + ((LimbAt(N, i + k + 1) % pw) * (Base \div pw))

\* the four low limbs of N \div 2^s
BShr(N, s) ==
    LET k == s \div LimbBits
        pw == Pow2(s % LimbBits)
    IN  <<ShrLimb(N, k, pw, 1), ShrLimb(N, k, pw, 2),
          ShrLimb(N, k, pw, 3), ShrLimb(N, k, pw, 4)>>

\* bit j of N, bit 0 the least significant
BBit(N, j) == (LimbAt(N, j \div LimbBits + 1) \div Pow2(j % LimbBits)) % 2

\* the bits of N below bit j are all 0
BLowZero(N, j) ==
    LET k == j \div LimbBits
    IN  /\ \A i \in 1..k : LimbAt(N, i) = 0
        /\ LimbAt(N, k + 1) % Pow2(j % LimbBits) = 0

\* q + 1 for q of four limbs
BInc(q) ==
    IF q[1] + 1 < Base THEN <<q[1] + 1, q[2], q[3], q[4]>>
    ELSE IF q[2] + 1 < Base THEN <<0, q[2] + 1, q[3], q[4]>>
    ELSE IF q[3] + 1 < Base THEN <<0, 0, q[3] + 1, q[4]>>
    ELSE <<0, 0, 0, q[4] + 1>>

RECURSIVE BGtFrom(_, _, _)
BGtFrom(a, b, i) ==
    IF i = 0 THEN FALSE
    ELSE IF a[i] # b[i] THEN a[i] > b[i]
    ELSE BGtFrom(a, b, i - 1)

\* a > b for a and b of the same number of limbs
BGt(a, b) == BGtFrom(a, b, Len(a))

RECURSIVE BSubFrom(_, _, _, _)
BSubFrom(a, b, i, borrow) ==
    IF i > Len(a) THEN <<>>
    ELSE LET d == a[i] - LimbAt(b, i) - borrow
         IN  IF d < 0 THEN <<d + Base>> \o BSubFrom(a, b, i + 1, 1)
             ELSE <<d>> \o BSubFrom(a, b, i + 1, 0)

\* a - b for a >= b, in the limbs of a
BSub(a, b) == BSubFrom(a, b, 1, 0)

RECURSIVE BAddFrom(_, _, _, _)
BAddFrom(a, b, i, carry) ==
    IF i > Len(a) THEN <<>>
    ELSE <<(a[i] + LimbAt(b, i) + carry) % Base>>
         \o BAddFrom(a, b, i + 1, (a[i] + LimbAt(b, i) + carry) \div Base)

\* a + b in the limbs of a, which hold the sum
BAdd(a, b) == BAddFrom(a, b, 1, 0)

\* a * b for a and b of four limbs, in eight limbs
BMul(a, b) ==
    LET c1 == a[1] * b[1]
        c2 == a[1] * b[2] + a[2] * b[1] + (c1 \div Base)
        c3 == a[1] * b[3] + a[2] * b[2] + a[3] * b[1] + (c2 \div Base)
        c4 == a[1] * b[4] + a[2] * b[3] + a[3] * b[2] + a[4] * b[1]
                  + (c3 \div Base)
        c5 == a[2] * b[4] + a[3] * b[3] + a[4] * b[2] + (c4 \div Base)
        c6 == a[3] * b[4] + a[4] * b[3] + (c5 \div Base)
        c7 == a[4] * b[4] + (c6 \div Base)
    IN  <<c1 % Base, c2 % Base, c3 % Base, c4 % Base,
          c5 % Base, c6 % Base, c7 % Base, c7 \div Base>>

\* One digit of the long division by v, for r < v of four limbs with the
\* top bit of v[4] set: q = (r * Base) \div v and the remainder.
\* DivEstimate: the quotient of the two leading limbs of r * Base by v[4],
\* capped at Base - 1, is never below q; it is lowered while the third limb
\* shows it to be too large, after which it is q or q + 1.
RECURSIVE DivRefine(_, _, _, _)
DivRefine(q, rhat, r, v) ==
    IF rhat < Base /\ q * v[3] > rhat * Base + r[2]
    THEN DivRefine(q - 1, rhat + v[4], r, v)
    ELSE q

DivEstimate(r, v) ==
    LET n == r[4] * Base + r[3]
        q0 == IF n \div v[4] < Base THEN n \div v[4] ELSE Base - 1
    IN  DivRefine(q0, n - q0 * v[4], r, v)

\* q * v for a single limb q, in five limbs
DivProduct(v, q) ==
    LET p1 == v[1] * q
        p2 == v[2] * q + (p1 \div Base)
        p3 == v[3] * q + (p2 \div Base)
        p4 == v[4] * q + (p3 \div Base)
    IN  <<p1 % Base, p2 % Base, p3 % Base, p4 % Base, p4 \div Base>>

\* r * Base - p: four limbs and, fifth, 0 or (where p is the larger) -1
DivRemainder(r, p) ==
    LET x1 == -p[1]
        x2 == r[1] - p[2] + (x1 \div Base)
        x3 == r[2] - p[3] + (x2 \div Base)
        x4 == r[3] - p[4] + (x3 \div Base)
    IN  <<x1 % Base, x2 % Base, x3 % Base, x4 % Base,
          r[4] - p[5] + (x4 \div Base)>>

\* the four limbs of x + v
DivAddBack(x, v) ==
    LET y1 == x[1] + v[1]
        y2 == x[2] + v[2] + (y1 \div Base)
        y3 == x[3] + v[3] + (y2 \div Base)
    IN  <<y1 % Base, y2 % Base, y3 % Base,
          (x[4] + v[4] + (y3 \div Base)) % Base>>

\* the digit and the remainder, from the estimate q and x = r * Base - q * v
DivCorrect(q, x, v) ==
    IF x[5] < 0 THEN [q |-> q - 1, r |-> DivAddBack(x, v)]
    ELSE [q |-> q, r |-> <<x[1], x[2], x[3], x[4]>>]

DivTry(r, v, q) == DivCorrect(q, DivRemainder(r, DivProduct(v, q)), v)

DivStep(r, v) == DivTry(r, v, DivEstimate(r, v))

\* k more digits after the step s: the digits, last first, and the remainder
RECURSIVE DivDigits(_, _, _, _)
DivDigits(s, v, k, digits) ==
    IF k = 0 THEN [q |-> <<s.q>> \o digits, r |-> s.r]
    ELSE DivDigits(DivStep(s.r, v), v, k - 1, <<s.q>> \o digits)

-----------------------------------------------------------------------------
(* Binary64 arithmetic                                                     *)

\* the exponents of the unit in the last place: 2^-1074 for the numbers
\* below 2^-1022 (subnormal, mantissa below 2^52), up to 2^971
MinExponent == -1074
MaxExponent == 971

NoLimbs == <<0, 0, 0, 0>>

\* 0.0 and -0.0
Zero(neg) == [neg |-> neg, m |-> NoLimbs, e |-> 0]
ZERO == Zero(FALSE)

\* float('inf'), which min_length holds until a design is stored, and
\* -float('inf')
Inf(neg) == [neg |-> neg, inf |-> TRUE]
Infinity == Inf(FALSE)

\* float('nan')
NaN == [nan |-> TRUE]

IsNaN(x) == "nan" \in DOMAIN x
IsInf(x) == "inf" \in DOMAIN x
IsFinite(x) == "m" \in DOMAIN x
IsZero(x) == IsFinite(x) /\ x.m = NoLimbs

\* Python's None
None == [is_none |-> TRUE]

Abs(n) == IF n < 0 THEN -n ELSE n

Max(a, b) == IF a >= b THEN a ELSE b

\* m * 2^e as a float: a zero, an infinity where it is beyond the largest
\* float, else the number
Pack(neg, m, e) ==
    IF m = NoLimbs THEN Zero(neg)
    ELSE IF e > MaxExponent THEN Inf(neg)
    ELSE [neg |-> neg, m |-> m, e |-> e]

\* m * 2^e, for m of at most 53 bits or, the rounding having carried,
\* m = 2^53
RoundCarry(neg, m, e) ==
    IF m[4] = Pow2(MantissaBits - 3 * LimbBits)
    THEN Pack(neg, <<0, 0, 0, m[4] \div 2>>, e + 1)
    ELSE Pack(neg, m, e)

\* to nearest, ties to even: q is up to the bits cut off, of which half is
\* the first and above says that a later one is set
RoundNearest(neg, q, e, half, above) ==
    IF half /\ (above \/ q[1] % 2 = 1) THEN RoundCarry(neg, BInc(q), e)
    ELSE Pack(neg, q, e)

\* N * 2^e with the s low bits of N rounded away
RoundAt(neg, N, e, sticky, s) ==
    IF s <= 0 THEN Pack(neg, BShl(N, -s), e + s)
    ELSE RoundNearest(neg, BShr(N, s), e + s, BBit(N, s - 1) = 1,
                      sticky \/ ~BLowZero(N, s - 1))

\* the float nearest to N * 2^e, negated if neg (ties to even); sticky: the
\* exact magnitude is above N * 2^e and below (N + 1) * 2^e.  N is cut to
\* 53 bits, to fewer where the unit would fall below 2^MinExponent.
RoundToDouble(neg, N, e, sticky) ==
    RoundAt(neg, N, e, sticky,
            Max(BBitLen(N) - MantissaBits, MinExponent - e))

\* float(n) for an int -2^31 < n < 2^31
FromInt(n) == RoundToDouble(n < 0, Limbs(Abs(n)), 0, FALSE)

\* x * y where x or y is infinite or NaN
FMulSpecial(x, y) ==
    IF IsNaN(x) \/ IsNaN(y) \/ IsZero(x) \/ IsZero(y) THEN NaN
    ELSE Inf(x.neg # y.neg)

\* x * y
FMul(x, y) ==
    IF ~(IsFinite(x) /\ IsFinite(y)) THEN FMulSpecial(x, y)
    ELSE IF x.m = NoLimbs \/ y.m = NoLimbs THEN Zero(x.neg # y.neg)
    ELSE RoundToDouble(x.neg # y.neg, BMul(x.m, y.m), x.e + y.e, FALSE)

\* the exception of a division by 0.0
ZeroDivisionError == [type |-> "ZeroDivisionError"]

\* a finite x other than zero with the mantissa shifted to 53 bits (a
\* subnormal x gets an exponent below MinExponent)
Normal(x) ==
    IF x.m[4] >= Pow2(MantissaBits - 1 - 3 * LimbBits) THEN x
    ELSE [neg |-> x.neg, m |-> BShl(x.m, MantissaBits - BBitLen(x.m)),
          e |-> x.e - (MantissaBits - BBitLen(x.m))]

\* the quotient of the mantissas: d.q = (x.m * 2^55) \div y.m in four
\* digits, d.r the remainder
FDivRound(neg, d, e) ==
    RoundToDouble(neg, d.q, e, d.r # NoLimbs)

FDivLong(neg, r, v, e) ==
    FDivRound(neg, DivDigits(DivStep(r, v), v, 3, <<>>), e)

\* x / y for mantissas of 53 bits: for y a power of two the mantissa of x,
\* else four digits of the long division of x.m * 2^58 by y.m * 2^3
FDivNormal(x, y) ==
    IF y.m = <<0, 0, 0, Pow2(MantissaBits - 1 - 3 * LimbBits)>>
    THEN RoundToDouble(x.neg # y.neg, x.m, x.e - y.e - (MantissaBits - 1),
                       FALSE)
    ELSE FDivLong(x.neg # y.neg, BShl(x.m, 2), BShl(y.m, 3), x.e - y.e - 55)

\* x / y where x or y is infinite or NaN
FDivSpecial(x, y) ==
    IF IsZero(y) THEN ZeroDivisionError
    ELSE IF IsNaN(x) \/ IsNaN(y) THEN NaN
    ELSE IF IsInf(x) THEN IF IsInf(y) THEN NaN ELSE Inf(x.neg # y.neg)
    ELSE Zero(x.neg # y.neg)

\* x / y
FDiv(x, y) ==
    IF ~(IsFinite(x) /\ IsFinite(y)) THEN FDivSpecial(x, y)
    ELSE IF y.m = NoLimbs THEN ZeroDivisionError
    ELSE IF x.m = NoLimbs THEN Zero(x.neg # y.neg)
    ELSE FDivNormal(Normal(x), Normal(y))

\* |x| <= |y| for finite x and y
MagnitudeLeq(x, y) ==
    IF x.m = NoLimbs THEN TRUE
    ELSE IF y.m = NoLimbs THEN FALSE
    ELSE x.e < y.e \/ (x.e = y.e /\ ~BGt(x.m, y.m))

\* |x| + |y| with the sign neg, for x and y other than zero, d = x.e - y.e
\* >= 0: y is below half a unit in the last place of x where d is above 54
MagnitudeSum(neg, x, y, d) ==
    IF d > MantissaBits + 1 THEN [neg |-> neg, m |-> x.m, e |-> x.e]
    ELSE RoundToDouble(neg, BAdd(BShlWide(x.m, d, 8), y.m), y.e, FALSE)

\* |x| - |y| with the sign neg, for |x| >= |y| > 0, d = x.e - y.e; 0.0
\* where they are equal
MagnitudeDifference(neg, x, y, d) ==
    IF d > MantissaBits + 1 THEN [neg |-> neg, m |-> x.m, e |-> x.e]
    ELSE IF d = 0
    THEN IF x.m = y.m THEN ZERO
         ELSE RoundToDouble(neg, BSub(x.m, y.m), y.e, FALSE)
    ELSE RoundToDouble(neg, BSub(BShlWide(x.m, d, 8), y.m), y.e, FALSE)

\* x - y where x or y is infinite or NaN
FSubSpecial(x, y) ==
    IF IsNaN(x) \/ IsNaN(y) THEN NaN
    ELSE IF IsInf(x) THEN IF IsInf(y) /\ x.neg = y.neg THEN NaN ELSE x
    ELSE Inf(~y.neg)

\* x - y: the magnitudes are added where the signs differ, and the smaller
\* is taken from the larger where they agree
FSub(x, y) ==
    IF ~(IsFinite(x) /\ IsFinite(y)) THEN FSubSpecial(x, y)
    ELSE IF y.m = NoLimbs
    THEN IF x.m = NoLimbs THEN Zero(x.neg /\ ~y.neg) ELSE x
    ELSE IF x.m = NoLimbs THEN [neg |-> ~y.neg, m |-> y.m, e |-> y.e]
    ELSE IF x.neg # y.neg
    THEN IF x.e >= y.e THEN MagnitudeSum(x.neg, x, y, x.e - y.e)
         ELSE MagnitudeSum(x.neg, y, x, y.e - x.e)
    ELSE IF MagnitudeLeq(y, x)
    THEN MagnitudeDifference(x.neg, x, y, x.e - y.e)
    ELSE MagnitudeDifference(~x.neg, y, x, y.e - x.e)

\* x <= y where x or y is infinite, neither NaN
FLeqSpecial(x, y) ==
    IF IsInf(x) THEN x.neg \/ (IsInf(y) /\ ~y.neg)
    ELSE ~y.neg

\* x <= y
FLeq(x, y) ==
    IF IsNaN(x) \/ IsNaN(y) THEN FALSE
    ELSE IF ~(IsFinite(x) /\ IsFinite(y)) THEN FLeqSpecial(x, y)
    ELSE IF x.m = NoLimbs /\ y.m = NoLimbs THEN TRUE
    ELSE IF x.neg # y.neg THEN x.neg
    ELSE IF x.neg THEN MagnitudeLeq(y, x)
    ELSE MagnitudeLeq(x, y)

\* x < y
FLess(x, y) == FLeq(x, y) /\ ~FLeq(y, x)

\* the exceptions of int(x) and math.ceil(x) for an x that is not finite
OverflowError ==
    [type |-> "OverflowError",
     what |-> "cannot convert float infinity to integer"]
NaNError ==
    [type |-> "ValueError", what |-> "cannot convert float NaN to integer"]

\* the exception int(x) and math.ceil(x) raise, or None
ConversionError(x) ==
    IF IsInf(x) THEN OverflowError
    ELSE IF IsNaN(x) THEN NaNError
    ELSE None

\* int(|x|) for a finite x, which has to be below 2^31
MagnitudeInt(x) ==
    IF -x.e >= MantissaBits THEN 0
    ELSE IF x.e >= 0 THEN ToInt(x.m) * Pow2(x.e)
    ELSE ToInt(BShr(x.m, -x.e))

\* int(x) for a finite x: truncation toward zero
FInt(x) == IF x.neg THEN -MagnitudeInt(x) ELSE MagnitudeInt(x)

\* x.is_integer() for a finite x
FIsInteger(x) ==
    \/ x.m = NoLimbs
    \/ x.e >= 0
    \/ -x.e < MantissaBits /\ BLowZero(x.m, -x.e)

\* math.ceil(x) for a finite x
FCeil(x) == IF x.neg \/ FIsInteger(x) THEN FInt(x) ELSE FInt(x) + 1

\* the float of the decimal literal n/d (d a power of ten): the float
\* nearest to the quotient
Decimal(n, d) == FDiv(FromInt(n), FromInt(d))

\* math.pi = 3.141592653589793 = 7074237752028440 * 2^-51
MATH_PI == [neg |-> FALSE, m |-> <<11544, 4368, 8117, 1608>>, e |-> -51]

\* an int held in min_length
Finite(n) == [value |-> n]

-----------------------------------------------------------------------------
(* Reference data                                                          *)

BOLT_DIAMETERS == <<10, 12, 16, 20, 24>>

BOLT_GRADES ==
    <<Decimal(36, 10), Decimal(46, 10), Decimal(48, 10), Decimal(56, 10),
      Decimal(58, 10), Decimal(68, 10), Decimal(88, 10), Decimal(109, 10)>>

PLATE_GRADES == <<"E250", "E275", "E300", "E350", "E410", "E450", "E500", "E550">>

\* plate grade -> <<fy, fu>> in MPa; the keys in insertion order are PLATE_GRADES
PLATE_STRENGTHS ==
    [k \in {PLATE_GRADES[i] : i \in 1..Len(PLATE_GRADES)} |->
        CASE k = "E250" -> <<250, 410>>
          [] k = "E275" -> <<275, 440>>
          [] k = "E300" -> <<300, 470>>
          [] k = "E350" -> <<350, 510>>
          [] k = "E410" -> <<410, 550>>
          [] k = "E450" -> <<450, 590>>
          [] k = "E500" -> <<500, 650>>
          [] k = "E550" -> <<550, 700>>]

SAFETY_FACTOR == Decimal(133, 100)

\* the literals 0.6 and 2.5 of the capacity formulas
SHEAR_COEFFICIENT == Decimal(6, 10)
BEARING_COEFFICIENT == Decimal(25, 10)

-----------------------------------------------------------------------------
(* The capacity helpers                                                    *)

\* <<fu, fy>> of a bolt grade, fu an int, fy a float; for a grade that is
\* not finite, [raised |-> the exception of int(bolt_grade)]
BoltStrengthOf(bolt_grade, whole) ==
    <<whole * 100,
      FMul(FSub(bolt_grade, FromInt(whole)), FromInt(whole * 100))>>

BoltStrengthUnless(bolt_grade, exc) ==
    IF exc # None THEN [raised |-> exc]
    ELSE BoltStrengthOf(bolt_grade, FInt(bolt_grade))

calculate_bolt_strength(bolt_grade) ==
    BoltStrengthUnless(bolt_grade, ConversionError(bolt_grade))

\* 0.6 * fy * A_bolt
calculate_shear_capacity(fy, A_bolt) ==
    FMul(FMul(SHEAR_COEFFICIENT, fy), A_bolt)

\* 2.5 * fu_plate * t * d
calculate_bearing_capacity(fu_plate, t, d) ==
    FMul(FMul(FMul(BEARING_COEFFICIENT, FromInt(fu_plate)), FromInt(t)),
         FromInt(d))

-----------------------------------------------------------------------------
(* The body of the search loop, one expression per assignment              *)

\* P_N = P * 1000
Newtons(P_kN) == FMul(P_kN, FromInt(1000))

\* A_bolt = math.pi * (d / 2) ** 2
FSquare(x) == FMul(x, x)

bolt_area(d) == FMul(MATH_PI, FSquare(FDiv(FromInt(d), FromInt(2))))

\* math.ceil(q) for the quotient q, itself an exception where the divisor
\* was 0.0
CeilUnless(q, exc) ==
    IF exc # None THEN [raised |-> exc] ELSE [returned |-> FCeil(q)]

CeilOfQuotient(q) ==
    IF q = ZeroDivisionError THEN [raised |-> q]
    ELSE CeilUnless(q, ConversionError(q))

\* N_b = math.ceil(P_N / (V_b / SAFETY_FACTOR)): [returned |-> N_b], or
\* [raised |-> exception]
required_bolts(P_N, V_b) ==
    CeilOfQuotient(FDiv(P_N, FDiv(V_b, SAFETY_FACTOR)))

\* N_b * V_b / SAFETY_FACTOR
connection_strength(N_b, V_b) == FDiv(FMul(FromInt(N_b), V_b), SAFETY_FACTOR)

\* mutant: the safety factor left out of the ratio
utilization_NoSafety(P_N, N_b, V_b) ==
    FDiv(P_N, FMul(FromInt(N_b), V_b))

\* utilization_ratio = P_N / (N_b * V_b / SAFETY_FACTOR)
utilization(P_N, N_b, V_b) ==
    FDiv(P_N, connection_strength(N_b, V_b))

\* the locals set up to the test "if N_b < 2"; where the bolt count raises,
\* raised is the exception and N_b is not set
ShearLocalsWith(d, GB, s, A, V, r) ==
    [d |-> d, GB |-> GB, fu_bolt |-> s[1], fy_bolt |-> s[2],
     A_bolt |-> A, V_b |-> V,
     N_b |-> IF "raised" \in DOMAIN r THEN None ELSE r.returned,
     raised |-> IF "raised" \in DOMAIN r THEN r.raised ELSE None]

\* ... from V_b on
ShearLocalsFrom(P_N, d, GB, s, A, V) ==
    ShearLocalsWith(d, GB, s, A, V, required_bolts(P_N, V))

\* ... from fu_bolt, fy_bolt and A_bolt on
ShearLocalsOf(P_N, d, GB, s, A) ==
    ShearLocalsFrom(P_N, d, GB, s, A, calculate_shear_capacity(s[2], A))

ShearLocals(P_N, d, GB) ==
    ShearLocalsOf(P_N, d, GB, calculate_bolt_strength(GB), bolt_area(d))

\* "if N_b < 2: continue"
TooFewBolts(N_b) == N_b < 2

\* the locals set after it
DetailLocals(P_N, w, t1, t2, fu_plate, sl) ==
    LET e == sl.d + 5
        t_total == t1 + t2
    IN  [e |-> e, p |-> sl.d + 10, g |-> FDiv(FromInt(w), FromInt(2)),
         length_of_connection |-> w + 2 * e,
         t_total |-> t_total,
         V_dpb |-> calculate_bearing_capacity(fu_plate, t_total, sl.d),
         utilization_ratio |-> utilization(P_N, sl.N_b, sl.V_b)]

\* length_of_connection < min_length
LengthLess(length_of_connection, min_len) ==
    min_len = Infinity \/ length_of_connection < min_len.value

\* mutant: "<=" against min_length, so that the last of equal lengths wins
IsBetter_TiesLast(utilization_ratio, length_of_connection, min_len) ==
    /\ FLeq(utilization_ratio, FromInt(1))
    /\ (min_len = Infinity \/ length_of_connection <= min_len.value)

\* "if utilization_ratio <= 1 and length_of_connection < min_length"
IsBetter(utilization_ratio, length_of_connection, min_len) ==
    /\ FLeq(utilization_ratio, FromInt(1))
    /\ LengthLess(length_of_connection, min_len)

\* the dictionary stored in best_design
MakeDesign(sl, dl, fy_plate) ==
    [bolt_diameter |-> sl.d,
     bolt_grade |-> sl.GB,
     number_of_bolts |-> sl.N_b,
     pitch_distance |-> dl.p,
     gauge_distance |-> dl.g,
     end_distance |-> dl.e,
     edge_distance |-> dl.e,
     number_of_rows |-> 1,
     number_of_columns |-> sl.N_b,
     hole_diameter |-> sl.d + 2,
     strength_of_connection |-> connection_strength(sl.N_b, sl.V_b),
     yield_strength_plate_1 |-> fy_plate,
     yield_strength_plate_2 |-> fy_plate,
     length_of_connection |-> dl.length_of_connection,
     efficiency_of_connection |-> dl.utilization_ratio]

-----------------------------------------------------------------------------
(* The search                                                              *)

\* The search state: best_design, min_length, the exception that ended the
\* search (raised, else None) and, for inspection, the locals of every
\* candidate evaluated so far in the current scan (trace).
\* inp holds what the loop body reads: P_N, w, t1, t2, fy_plate, fu_plate.

\* the body from the test of the design on, the locals being sl and dl
EvaluateDetail(st, sl, dl, inp) ==
    IF IsBetter(dl.utilization_ratio, dl.length_of_connection, st.min_length)
    THEN [best_design |-> MakeDesign(sl, dl, inp.fy_plate),
          min_length |-> Finite(dl.length_of_connection),
          raised |-> None,
          trace |-> Append(st.trace,
                           [shear |-> sl, detail |-> dl, kept |-> TRUE])]
    ELSE [st EXCEPT !.trace =
             Append(@, [shear |-> sl, detail |-> dl, kept |-> FALSE])]

\* the body from the bolt count on, the locals being sl
EvaluateShear(st, sl, inp) ==
    IF sl.raised # None THEN [st EXCEPT !.raised = sl.raised]
    ELSE IF TooFewBolts(sl.N_b)
    THEN [st EXCEPT !.trace = Append(@, [shear |-> sl, kept |-> FALSE])]
    ELSE EvaluateDetail(st, sl,
             DetailLocals(inp.P_N, inp.w, inp.t1, inp.t2, inp.fu_plate, sl),
             inp)

\* one pass through the body of the inner loop, for candidate (d, GB)
Evaluate(st, d, GB, inp) == EvaluateShear(st, ShearLocals(inp.P_N, d, GB), inp)

\* "for GB in BOLT_GRADES": the rest of the scan of diameter d, the grades
\* before position Len(st.trace) + 1 having been evaluated; an exception
\* ends it
RECURSIVE ScanGrades(_, _, _)
ScanGrades(st, d, inp) ==
    IF st.raised # None \/ Len(st.trace) >= Len(BOLT_GRADES) THEN st
    ELSE ScanGrades(Evaluate(st, d, BOLT_GRADES[Len(st.trace) + 1], inp),
                    d, inp)

\* "for d in BOLT_DIAMETERS", from position i on
RECURSIVE ScanDiameters(_, _, _)
ScanDiameters(st, i, inp) ==
    IF st.raised # None \/ i > Len(BOLT_DIAMETERS) THEN st
    ELSE ScanDiameters(
             ScanGrades([st EXCEPT !.trace = <<>>], BOLT_DIAMETERS[i], inp),
             i + 1, inp)

\* mutant: the lookup without the membership test, a bare KeyError
InvalidGradeError_KeyError(grade) ==
    [type |-> "KeyError", key |-> grade]

\* ValueError(f"Invalid plate grade: {plate_grade}. Available grades are ...")
InvalidGradeError(grade) ==
    [type |-> "ValueError", what |-> "Invalid plate grade",
     grade |-> grade, available |-> PLATE_GRADES]

\* ValueError("No suitable design found that meets the requirements.")
NoDesignError ==
    [type |-> "ValueError", what |-> "No suitable design found"]

\* the whole call: [returned |-> design] or [raised |-> error]
design_lap_joint(P_kN, wd, th1, th2, grade) ==
    IF grade \notin DOMAIN PLATE_STRENGTHS
    THEN [raised |-> InvalidGradeError(grade)]
    ELSE LET inp == [P_N |-> Newtons(P_kN), w |-> wd, t1 |-> th1, t2 |-> th2,
                     fy_plate |-> PLATE_STRENGTHS[grade][1],
                     fu_plate |-> PLATE_STRENGTHS[grade][2]]
             st == ScanDiameters([best_design |-> None, min_length |-> Infinity,
                                  raised |-> None, trace |-> <<>>], 1, inp)
         IN  IF st.raised # None
             THEN [raised |-> st.raised]
             ELSE IF st.best_design = None
             THEN [raised |-> NoDesignError]
             ELSE [returned |-> st.best_design]

-----------------------------------------------------------------------------
(* Inputs                                                                  *)

\* the parameters of the test file
loads == {10 * k : k \in 0..10}
thicknesses == {6, 8, 10, 12, 16, 20, 24}
plate_width == 150
plate_grades == {PLATE_GRADES[i] : i \in 1..Len(PLATE_GRADES)}
\* <<bolt_grade, expected_fu, expected_fy>> of test_calculate_bolt_strength
bolt_strength_cases ==
    {<<Decimal(36, 10), 360, 216>>, <<Decimal(46, 10), 460, 276>>,
     <<Decimal(58, 10), 580, 464>>, <<Decimal(88, 10), 800, 640>>,
     <<Decimal(109, 10), 1000, 900>>}

\* loads that are not whole numbers of kN: 12.5, and two that lie one float
\* above a load at which the weakest bolt is used in full, by five bolts
\* and by thirteen: 31.888346483806174 = 8975771583870672 * 2^-48 and
\* 82.90970085789606 = 5834251529515937 * 2^-46
FractionalLoads ==
    {[neg |-> FALSE, m |-> <<0, 0, 0, 1600>>, e |-> -49],
     [neg |-> FALSE, m |-> <<14032, 13149, 13994, 2040>>, e |-> -48],
     [neg |-> FALSE, m |-> <<13217, 10185, 9096, 1326>>, e |-> -46]}

\* a load whose value in newtons is past the largest float:
\* 1e306 = 6413338752028713 * 2^964
HugeLoads == {[neg |-> FALSE, m |-> <<4137, 10382, 3676, 1458>>, e |-> 964]}

Loads ==
    {FromInt(l) : l \in (0..MaxLoad) \cup loads} \cup FractionalLoads
        \cup HugeLoads
Widths == {plate_width, plate_width + ExtraWidth}
Thicknesses == {t \in thicknesses : t <= MaxThickness}
GradeNames == plate_grades \cup {"E999"}

-----------------------------------------------------------------------------
(* One call of design_lap_joint, one diameter of the outer loop per step   *)

VARIABLES
    P, w, t1, t2, plate_grade,  \* the arguments
    pc,                         \* "start", "loop", "end", "returned", "raised"
    P_N, fy_plate, fu_plate,
    search,                     \* best_design, min_length, the exception of
                                \* the loop body (raised) and the candidates
                                \* of the diameter scanned last (trace)
    di,                         \* position of the outer for loop
    evaluated,                  \* number of candidates evaluated so far
    error                       \* the exception raised, or None

vars == <<P, w, t1, t2, plate_grade, pc, P_N, fy_plate, fu_plate, search,
          di, evaluated, error>>

args == <<P, w, t1, t2, plate_grade>>

best_design == search.best_design
min_length == search.min_length
trace == search.trace

\* entry: "P_N = P * 1000; best_design = None; min_length = float('inf')"
Init ==
    /\ P \in Loads
    /\ w \in Widths
    /\ t1 \in Thicknesses
    /\ t2 \in Thicknesses
    /\ plate_grade \in GradeNames
    /\ pc = "start"
    /\ P_N = Newtons(P)
    /\ search = [best_design |-> None, min_length |-> Infinity,
                 raised |-> None, trace |-> <<>>]
    /\ fy_plate = 0
    /\ fu_plate = 0
    /\ di = 1
    /\ evaluated = 0
    /\ error = None

\* "if plate_grade not in PLATE_STRENGTHS: raise ValueError(...)"
RaiseInvalidGrade ==
    /\ pc = "start"
    /\ plate_grade \notin DOMAIN PLATE_STRENGTHS
    /\ pc' = "raised"
    /\ error' = InvalidGradeError(plate_grade)
    /\ UNCHANGED <<args, P_N, fy_plate, fu_plate, search, di, evaluated>>

\* "fy_plate, fu_plate = PLATE_STRENGTHS[plate_grade]", entering the loops
ResolvePlate ==
    /\ pc = "start"
    /\ plate_grade \in DOMAIN PLATE_STRENGTHS
    /\ fy_plate' = PLATE_STRENGTHS[plate_grade][1]
    /\ fu_plate' = PLATE_STRENGTHS[plate_grade][2]
    /\ pc' = "loop"
    /\ UNCHANGED <<args, P_N, search, di, evaluated, error>>

\* one iteration of "for d in BOLT_DIAMETERS": the inner loop over all
\* grades, or up to the candidate whose bolt count raises
ScanDiameter ==
    /\ pc = "loop"
    /\ search' = ScanGrades([search EXCEPT !.trace = <<>>], BOLT_DIAMETERS[di],
                            [P_N |-> P_N, w |-> w, t1 |-> t1, t2 |-> t2,
                             fy_plate |-> fy_plate, fu_plate |-> fu_plate])
    /\ IF search'.raised # None
       THEN /\ evaluated' = evaluated + Len(search'.trace) + 1
            /\ di' = di /\ pc' = "raised"
            /\ error' = search'.raised
       ELSE /\ evaluated' = evaluated + Len(BOLT_GRADES)
            /\ IF di < Len(BOLT_DIAMETERS)
               THEN di' = di + 1 /\ pc' = "loop"
               ELSE di' = di /\ pc' = "end"
            /\ error' = error
    /\ UNCHANGED <<args, P_N, fy_plate, fu_plate>>

\* "if best_design is None: raise ValueError(...)"
RaiseNoDesign ==
    /\ pc = "end"
    /\ best_design = None
    /\ pc' = "raised"
    /\ error' = NoDesignError
    /\ UNCHANGED <<args, P_N, fy_plate, fu_plate, search, di, evaluated>>

\* "return best_design"
ReturnDesign ==
    /\ pc = "end"
    /\ best_design # None
    /\ pc' = "returned"
    /\ UNCHANGED <<args, P_N, fy_plate, fu_plate, search, di, evaluated, error>>

Next ==
    \/ RaiseInvalidGrade
    \/ ResolvePlate
    \/ ScanDiameter
    \/ RaiseNoDesign
    \/ ReturnDesign

Spec == Init /\ [][Next]_vars

-----------------------------------------------------------------------------
(* Vocabulary of the properties                                            *)

Terminal == pc \in {"returned", "raised"}
ValidGrade == plate_grade \in plate_grades
TestGeometry == w = plate_width /\ t1 \in thicknesses /\ t2 \in thicknesses
TestLoad == \E l \in loads : P = FromInt(l)

Candidates == (1..Len(BOLT_DIAMETERS)) \X (1..Len(BOLT_GRADES))

\* V_b and N_b of the candidate at catalog position c = <<i, j>>
CandV(c) ==
    calculate_shear_capacity(calculate_bolt_strength(BOLT_GRADES[c[2]])[2],
                             bolt_area(BOLT_DIAMETERS[c[1]]))
CandRaises(c) == "raised" \in DOMAIN required_bolts(P_N, CandV(c))
CandN(c) == required_bolts(P_N, CandV(c)).returned
CandLength(c) == w + 2 * (BOLT_DIAMETERS[c[1]] + 5)

\* at least two bolts and P_N / (N_b * V_b / 1.33) <= 1, written out
CandFeasible(c) ==
    LET n == CandN(c)
    IN  /\ ~CandRaises(c)
        /\ n >= 2
        /\ FLeq(FDiv(P_N, FDiv(FMul(FromInt(n), CandV(c)), Decimal(133, 100))),
                FromInt(1))

\* catalog iteration order: diameters outer, grades inner
Before(c1, c2) == c1[1] < c2[1] \/ (c1[1] = c2[1] /\ c1[2] <= c2[2])

\* the catalog position of the bolt of a design
PositionOf(design) ==
    CHOOSE c \in Candidates :
        /\ BOLT_DIAMETERS[c[1]] = design.bolt_diameter
        /\ BOLT_GRADES[c[2]] = design.bolt_grade

-----------------------------------------------------------------------------
(* C1 (as claimed): with a valid plate grade, a load P >= 0, t1 and t2     *)
(* among the test thicknesses and width 150, the call ends either          *)
(* returning a design with number_of_bolts >= 2 or raising the             *)
(* no-suitable-design error; a design with fewer than two bolts is never   *)
(* held or returned.                                                       *)
C1_AtLeastTwoBolts ==
    (ValidGrade /\ TestGeometry /\ FLeq(ZERO, P)) =>
        /\ best_design # None => best_design.number_of_bolts >= 2
        /\ pc = "returned" => best_design # None
        /\ pc = "raised" => error = NoDesignError

-----------------------------------------------------------------------------
(* C2 (as claimed): for every test load 0, 10, ..., 100 kN, all test       *)
(* thicknesses, all eight plate grades and width 150 the call returns a    *)
(* design with at least two bolts and does not raise.                      *)
C2_TestLoadsYieldDesign ==
    (TestLoad /\ ValidGrade /\ TestGeometry /\ Terminal) =>
        /\ pc = "returned"
        /\ best_design.number_of_bolts >= 2

-----------------------------------------------------------------------------
(* C3 (as claimed): calculate_bolt_strength gives (360, 216) for 3.6,      *)
(* (460, 276) for 4.6, (580, 464) for 5.8, (800, 640) for 8.8 and          *)
(* (1000, 900) for 10.9; read off the candidates the search evaluated.     *)
C3_BoltStrengthTable ==
    \A j \in 1..Len(trace) : \A e \in bolt_strength_cases :
        trace[j].shear.GB = e[1] =>
            /\ trace[j].shear.fu_bolt = e[2]
            /\ trace[j].shear.fy_bolt = FromInt(e[3])

-----------------------------------------------------------------------------
(* C4 (as claimed): P = 0 with a valid plate grade returns a design, with  *)
(* two bolts and the smallest connection length, width + 2 * (10 + 5).     *)
C4_ZeroLoadYieldsDesign ==
    (P = ZERO /\ ValidGrade /\ Terminal) =>
        /\ pc = "returned"
        /\ best_design.number_of_bolts = 2
        /\ best_design.length_of_connection = w + 2 * (10 + 5)

-----------------------------------------------------------------------------
(* C5: a returned design is built from a feasible candidate (N_b >= 2 and  *)
(* utilization ratio <= 1) of minimum connection length over the whole     *)
(* cross product, and among the feasible candidates of that length it is   *)
(* the first in catalog order (diameters outer, grades inner).             *)
C5_FirstShortestFeasible ==
    pc = "returned" =>
        LET c == PositionOf(best_design)
        IN  /\ CandFeasible(c)
            /\ best_design.number_of_bolts = CandN(c)
            /\ best_design.length_of_connection = CandLength(c)
            /\ \A k \in Candidates :
                   CandFeasible(k) =>
                       \/ CandLength(c) < CandLength(k)
                       \/ CandLength(c) = CandLength(k) /\ Before(c, k)

\* a design is returned where another candidate, later in the catalog, is
\* feasible with the same length, and one with a longer length
C5_Witness ==
    /\ pc = "returned"
    /\ \E k \in Candidates :
           /\ k # PositionOf(best_design)
           /\ CandFeasible(k)
           /\ CandLength(k) = best_design.length_of_connection
    /\ \E k \in Candidates :
           /\ CandFeasible(k)
           /\ CandLength(k) > best_design.length_of_connection

-----------------------------------------------------------------------------
(* C6 (as claimed): with a valid plate grade the call raises the           *)
(* no-suitable-design error exactly when, the whole cross product          *)
(* evaluated, no candidate has N_b >= 2 and utilization ratio <= 1;        *)
(* otherwise it returns the retained best candidate; the error carries no  *)
(* design.                                                                 *)
C6_RaisesIffNoneFeasible ==
    (ValidGrade /\ Terminal) =>
        /\ evaluated = Len(BOLT_DIAMETERS) * Len(BOLT_GRADES)
        /\ pc = "raised" <=> (\A c \in Candidates : ~CandFeasible(c))
        /\ pc = "raised" =>
               error = [type |-> "ValueError", what |-> "No suitable design found"]
                   /\ best_design = None
        /\ pc = "returned" => best_design # None /\ error = None

-----------------------------------------------------------------------------
(* C7: every design held or returned has efficiency_of_connection equal to *)
(* P_N / (N_b * V_b / 1.33) and at most 1, and its strength_of_connection  *)
(* is at least the load in Newtons.                                        *)
C7_UtilizationAtMostOne ==
    best_design # None =>
        LET n == best_design.number_of_bolts
            V == CandV(PositionOf(best_design))
        IN  /\ best_design.efficiency_of_connection =
                   FDiv(P_N, FDiv(FMul(FromInt(n), V), Decimal(133, 100)))
            /\ FLeq(best_design.efficiency_of_connection, FromInt(1))
            /\ FLeq(P_N, best_design.strength_of_connection)

\* a returned design that uses more than 95% of its capacity
C7_Witness ==
    /\ pc = "returned"
    /\ FLess(Decimal(95, 100), best_design.efficiency_of_connection)

-----------------------------------------------------------------------------
(* C8 (as claimed): for fixed width, thicknesses and plate grade, a call   *)
(* with a smaller load that returns a design returns one with no more      *)
(* bolts: compared for each returned design with the nearest smaller load  *)
(* that returns one, which orders every pair of loads.                     *)
Largest(S) == CHOOSE x \in S : \A y \in S : FLeq(y, x)

\* the design returned for the largest load of S that returns one, or None
RECURSIVE PreviousReturned(_)
PreviousReturned(S) ==
    IF S = {} THEN None
    ELSE LET r == design_lap_joint(Largest(S), w, t1, t2, plate_grade)
         IN  IF "returned" \in DOMAIN r THEN r.returned
             ELSE PreviousReturned(S \ {Largest(S)})

C8_BoltsMonotoneInLoad ==
    pc = "returned" =>
        LET prev == PreviousReturned({l \in Loads : FLess(l, P)})
        IN  prev # None => prev.number_of_bolts <= best_design.number_of_bolts

-----------------------------------------------------------------------------
(* C9: with a plate grade that is not a catalog key the call raises the    *)
(* invalid-plate-grade ValueError, carrying the name and the list of valid *)
(* names, before any candidate is evaluated; never a KeyError, never the   *)
(* no-suitable-design error.                                               *)
C9_InvalidGradeRejected ==
    ~ValidGrade =>
        /\ pc \in {"start", "raised"}
        /\ evaluated = 0 /\ best_design = None
        /\ pc = "raised" =>
               error = [type |-> "ValueError", what |-> "Invalid plate grade",
                        grade |-> plate_grade,
                        available |-> <<"E250", "E275", "E300", "E350",
                                        "E410", "E450", "E500", "E550">>]

C9_Witness ==
    /\ plate_grade = "E999" /\ pc = "raised"
    /\ error.grade = "E999"

-----------------------------------------------------------------------------
(* C10 (as claimed): whenever a design is returned its bolt is the first   *)
(* catalog pair, diameter 10 and grade 3.6, and its length is width + 30;  *)
(* whether a design is found is decided by the load alone, and the design  *)
(* is the one built from P, w and the plate's yield strength, whatever t1, *)
(* t2 and the plate's ultimate strength are.                               *)
C10_AlwaysFirstCatalogPair ==
    (ValidGrade /\ Terminal) =>
        LET sl == ShearLocals(P_N, 10, Decimal(36, 10))
        IN  /\ pc = "returned" <=> (sl.raised = None /\ sl.N_b >= 2)
            /\ pc = "returned" =>
                   /\ best_design.bolt_diameter = 10
                   /\ best_design.bolt_grade = Decimal(36, 10)
                   /\ best_design.length_of_connection = w + 30
                   /\ best_design =
                          MakeDesign(sl, DetailLocals(P_N, w, 0, 0, 0, sl), fy_plate)

=============================================================================
